---- MODULE Spec2Model ----
(***************************************************************************)
(* Credify backend: three form endpoints (contact, career, apply) that     *)
(* validate a submission and relay it as an e-mail notification.           *)
(*                                                                         *)
(* Three revisions of server.js are modelled side by side:                 *)
(*   "smtp"   src/server.js lines 1-215   (nodemailer; contact and apply   *)
(*            answer first and mail in the background, career is           *)
(*            synchronous and requires a resume upload)                    *)
(*   "brevo"  src/server.js lines 217-455 (HTTP transactional e-mail API   *)
(*            through fetch; every handler is synchronous)                 *)
(*   "plain"  src/unnamed/part_000        (nodemailer; every handler       *)
(*            answers first; career takes no upload)                       *)
(*                                                                         *)
(* A string is a sequence of one-character strings.  A request body is a   *)
(* function from the names of the fields that are present to strings; a    *)
(* field that is not in the domain is JavaScript's undefined.              *)
(***************************************************************************)
EXTENDS Integers, Sequences, FiniteSets, TLC

VARIABLES rev, pc, req, responses, outbox, trace, logs, delivery

vars == <<rev, pc, req, responses, outbox, trace, logs, delivery>>

(* ------------------------------ bounds -------------------------------- *)

\* Longest resume content (in bytes) that is enumerated.
MaxBytes == 3

(* ------------------------- strings and values ------------------------- *)

Revisions == {"smtp", "brevo", "plain"}

Whitespace == {" ", "\n"}

Letters == {"a", "b", "c", "d", "e", "h", "i", "k", "l", "m", "o", "x", "J", "R"}

Digits == {"1", "2", "5", "8", "9"}

\* String(undefined), as a template literal interpolates it.
UndefinedText == <<"u", "n", "d", "e", "f", "i", "n", "e", "d">>

Has(b, f) == f \in DOMAIN b

\* `${b.f}` in a template literal.
Interpolate(b, f) == IF Has(b, f) THEN b[f] ELSE UndefinedText

\* JavaScript truthiness of a field holding a string or undefined.
Truthy(b, f) == Has(b, f) /\ b[f] # <<>>

RECURSIVE replaceAll(_, _, _)
replaceAll(s, c, r) ==
  IF s = <<>> THEN <<>>
  ELSE (IF Head(s) = c THEN r ELSE <<Head(s)>>) \o replaceAll(Tail(s), c, r)

escapeHtmlAmpLast(str) ==
  replaceAll(
    replaceAll(
      replaceAll(
        replaceAll(
          replaceAll(str, "<", <<"&", "l", "t", ";">>),
          ">", <<"&", "g", "t", ";">>),
        "\"", <<"&", "q", "u", "o", "t", ";">>),
      "'", <<"&", "#", "0", "3", "9", ";">>),
    "&", <<"&", "a", "m", "p", ";">>)

escapeHtml(str) ==
  replaceAll(
    replaceAll(
      replaceAll(
        replaceAll(
          replaceAll(str, "&", <<"&", "a", "m", "p", ";">>),
          "<", <<"&", "l", "t", ";">>),
        ">", <<"&", "g", "t", ";">>),
      "\"", <<"&", "q", "u", "o", "t", ";">>),
    "'", <<"&", "#", "0", "3", "9", ";">>)

\* escapeHtml(b.f): the default parameter turns undefined into "".
escapeField(b, f) == IF Has(b, f) THEN escapeHtml(b[f]) ELSE escapeHtml(<<>>)

RECURSIVE trimStart(_)
trimStart(s) ==
  IF s # <<>> /\ Head(s) \in Whitespace THEN trimStart(Tail(s)) ELSE s

RECURSIVE trimEnd(_)
trimEnd(s) ==
  IF s # <<>> /\ s[Len(s)] \in Whitespace
  THEN trimEnd(SubSeq(s, 1, Len(s) - 1))
  ELSE s

trim(s) == trimEnd(trimStart(s))

(* ----------------------------- validators ----------------------------- *)

MinNameLen == 2

MinMessageLen == 5

MinPhoneLen == 7

MinTldLen == 2

\* The value a validator sees: express-validator turns undefined into "".
toString(b, f) == IF Has(b, f) THEN b[f] ELSE <<>>

isLength(s, min) == Len(s) >= min

notEmpty(s) == Len(s) > 0

\* Characters validator.js accepts in the local part of an address
\* (letters, digits and the atext specials that occur in the inputs).
UserPartChars == Letters \cup Digits \cup {"&", "'"}

Positions(s, c) == {i \in 1..Len(s) : s[i] = c}

\* validator.js isEmail with its defaults, for the inputs enumerated here:
\* one "@", a local part of atext characters, and a domain of at least two
\* dot-separated labels of letters and digits whose last one is a
\* top-level domain of two or more letters.
isEmail(s) ==
  /\ Cardinality(Positions(s, "@")) = 1
  /\ LET at == CHOOSE i \in Positions(s, "@") : TRUE
         user == SubSeq(s, 1, at - 1)
         domain == SubSeq(s, at + 1, Len(s))
         dots == Positions(domain, ".")
     IN /\ Len(user) >= 1
        /\ \A i \in 1..Len(user) : user[i] \in UserPartChars
        /\ dots # {}
        /\ \A i \in 1..Len(domain) : domain[i] \in Letters \cup Digits \cup {"."}
        /\ \A i \in dots : i > 1 /\ i < Len(domain) /\ (i + 1) \notin dots
        /\ LET last == CHOOSE i \in dots : \A j \in dots : j <= i
               tld == SubSeq(domain, last + 1, Len(domain))
           IN /\ Len(tld) >= MinTldLen
              /\ \A i \in 1..Len(tld) : tld[i] \in Letters


(* ------------------- responses, mails, handler results ---------------- *)

\* res.status(status).json({success, errors, error, msg})
Response(status, success, errors, error, msg) ==
  [status |-> status, success |-> success, errors |-> errors,
   error |-> error, msg |-> msg]

\* One entry of validationResult(req).array().
FieldError(path, msg) == [path |-> path, msg |-> msg]

ErrorIf(failed, path, msg) == IF failed THEN <<FieldError(path, msg)>> ELSE <<>>

\* One <p><b>label:</b> value</p> line of a notification's HTML.
Line(label, value) == [label |-> label, value |-> value]

\* What a handler has done when it returns or suspends at its await:
\* the responses it sent, the mails it handed to the transport, the order
\* of these events, what it logged, and whether it awaits the transport.
Result(rs, mails, events, logged, next) ==
  [responses |-> rs, outbox |-> mails, trace |-> events, logs |-> logged,
   pc |-> next]

\* express-validator's sanitizers write the sanitized value back to req.body.
Sanitized(b, trimmed) ==
  [f \in DOMAIN b |-> IF f \in trimmed THEN trim(b[f]) ELSE b[f]]

(* --------------------------- POST /api/contact ------------------------ *)

\* The validator chains of /api/contact (the same in the three revisions).
contactErrors(b) ==
  ErrorIf(~isLength(trim(toString(b, "name")), MinNameLen), "name", "Invalid value")
  \o ErrorIf(~isEmail(toString(b, "email")), "email", "Invalid value")
  \o ErrorIf(~notEmpty(toString(b, "loanType")), "loanType", "Invalid value")
  \o ErrorIf(~isLength(toString(b, "message"), MinMessageLen), "message", "Invalid value")

\* smtp revision: the mail handed to transporter.sendMail.
contactMailSmtp(b) ==
  [from |-> <<"Credify Contact">>,
   subject |-> <<"New Contact Form Submission [Credify]">>,
   heading |-> "Contact Form Submission",
   html |-> << Line("Name", escapeField(b, "name")),
               Line("Email", escapeField(b, "email")),
               Line("Loan Type", escapeField(b, "loanType")),
               Line("Message", escapeField(b, "message")) >>,
   attachments |-> <<>>]

\* brevo revision: the JSON body posted to the provider.
contactMailBrevo(b) ==
  [from |-> <<"Credify Contact">>,
   subject |-> <<"New Contact Form Submission [Credify]">>,
   heading |-> "Contact Form Submission",
   html |-> << Line("Name", escapeField(b, "name")),
               Line("Email", escapeField(b, "email")),
               Line("Loan Type", escapeField(b, "loanType")),
               Line("Message", escapeField(b, "message")) >>,
   attachments |-> <<>>]

\* plain revision: the mail handed to transporter.sendMail.
contactMailPlain(b) ==
  [from |-> <<"Credify Contact">>,
   subject |-> <<"New Contact Form Submission [Credify]">>,
   heading |-> "Contact Form Submission",
   html |-> << Line("Name", escapeField(b, "name")),
               Line("Email", escapeField(b, "email")),
               Line("Loan Type", escapeField(b, "loanType")),
               Line("Message", escapeField(b, "message")) >>,
   attachments |-> <<>>]

\* smtp revision: answer at once, mail in the background.
contactSmtp(body) ==
  LET errors == contactErrors(body)
      b == Sanitized(body, {"name"})
  IN IF errors # <<>>
     THEN Result(<<Response(400, FALSE, errors, "", "")>>, <<>>,
                 <<"response">>, <<>>, "done")
     ELSE Result(<<Response(200, TRUE, <<>>, "", "Contact form received")>>,
                 <<contactMailSmtp(b)>>, <<"response", "dispatch">>, <<>>,
                 "await")

\* brevo revision: mail first, answer when fetch settles.
contactBrevo(body) ==
  LET errors == contactErrors(body)
      b == Sanitized(body, {"name"})
  IN IF errors # <<>>
     THEN Result(<<Response(400, FALSE, errors, "", "")>>, <<>>,
                 <<"response">>, <<>>, "done")
     ELSE Result(<<>>, <<contactMailBrevo(b)>>, <<"dispatch">>, <<>>, "await")

\* plain revision: answer at once, mail in the background.
contactPlain(body) ==
  LET errors == contactErrors(body)
      b == Sanitized(body, {"name"})
  IN IF errors # <<>>
     THEN Result(<<Response(400, FALSE, errors, "", "")>>, <<>>,
                 <<"response">>, <<>>, "done")
     ELSE Result(<<Response(200, TRUE, <<>>, "", "Contact form received")>>,
                 <<contactMailPlain(b)>>, <<"response", "dispatch">>, <<>>,
                 "await")

(* --------------------------- POST /api/career ------------------------- *)

Pdf == "application/pdf"

Doc == "application/msword"

Docx == "application/vnd.openxmlformats-officedocument.wordprocessingml.document"

\* limits.fileSize: 5MB.
FileSizeLimit == 5 * 1024 * 1024

allowedSmtp == {Pdf, Doc, Docx}

allowedBrevo == {Pdf}

\* What upload.single("resume") passes to next(): "" when the request goes
\* on to the validators, else the message of the error.  The file filter
\* runs when the part starts, the size limit while its content streams in.
\* A request carries at most one file: files is <<>> or <<file>>.
uploadSmtp(files) ==
  IF files = <<>> THEN ""
  ELSE IF files[1].mimetype \notin allowedSmtp THEN "Only PDF/DOC/DOCX allowed"
  ELSE IF files[1].size > FileSizeLimit THEN "File too large"
  ELSE ""

uploadBrevo(files) ==
  IF files = <<>> THEN ""
  ELSE IF files[1].mimetype \notin allowedBrevo THEN "Only PDF allowed"
  ELSE IF files[1].size > FileSizeLimit THEN "File too large"
  ELSE ""

\* Neither revision registers an error-handling middleware, so an error
\* given to next() reaches Express's default handler: the error carries no
\* status, the response is a 500, and the error is written to stderr.
defaultErrorHandler(message) ==
  Result(<<Response(500, FALSE, <<>>, message, "")>>, <<>>,
         <<"response">>, <<message>>, "done")

\* The validator chains of /api/career in the smtp and brevo revisions.
careerErrorsUpload(b) ==
  ErrorIf(~isLength(trim(toString(b, "fullName")), MinNameLen),
          "fullName", "Full name required")
  \o ErrorIf(~isEmail(toString(b, "email")), "email", "Valid email required")
  \o ErrorIf(~isLength(trim(toString(b, "phone")), MinPhoneLen),
             "phone", "Phone required")
  \o ErrorIf(~notEmpty(trim(toString(b, "role"))), "role", "Role required")
  \o ErrorIf(~notEmpty(trim(toString(b, "experience"))),
             "experience", "Experience required")

\* The validator chains of /api/career in the plain revision.
careerErrorsPlain(b) ==
  ErrorIf(~isLength(trim(toString(b, "fullName")), MinNameLen),
          "fullName", "Invalid value")
  \o ErrorIf(~isEmail(toString(b, "email")), "email", "Invalid value")
  \o ErrorIf(~isLength(toString(b, "phone"), MinPhoneLen), "phone", "Invalid value")
  \o ErrorIf(~notEmpty(toString(b, "role")), "role", "Invalid value")
  \o ErrorIf(~notEmpty(toString(b, "experience")), "experience", "Invalid value")

\* escapeHtml(message).replace(/\n/g, "<br>"); the element "<br>" stands
\* for the markup the template inserts.
withBreaks(s) == replaceAll(s, "\n", <<"<br>">>)

\* The base64 alphabet, indexed from 1.
base64Alphabet ==
  <<
     "A", "B", "C", "D", "E", "F", "G", "H", "I", "J", "K", "L", "M", "N", "O", "P",
     "Q", "R", "S", "T", "U", "V", "W", "X", "Y", "Z", "a", "b", "c", "d", "e", "f",
     "g", "h", "i", "j", "k", "l", "m", "n", "o", "p", "q", "r", "s", "t", "u", "v",
     "w", "x", "y", "z", "0", "1", "2", "3", "4", "5", "6", "7", "8", "9", "+", "/" >>

base64Char(n) == base64Alphabet[n + 1]

RECURSIVE toBase64LowBitsLost(_)
toBase64LowBitsLost(buf) ==
  IF Len(buf) = 0 THEN <<>>
  ELSE IF Len(buf) = 1
  THEN << base64Char(buf[1] \div 4), base64Char((buf[1] % 4) * 16), "=", "=" >>
  ELSE IF Len(buf) = 2
  THEN << base64Char(buf[1] \div 4),
          base64Char((buf[1] % 4) * 16),
          base64Char((buf[2] % 16) * 4), "=" >>
  ELSE << base64Char(buf[1] \div 4),
          base64Char((buf[1] % 4) * 16),
          base64Char((buf[2] % 16) * 4 + buf[3] \div 64),
          base64Char(buf[3] % 64) >>
       \o toBase64LowBitsLost(SubSeq(buf, 4, Len(buf)))

\* Buffer.toString("base64"): three bytes become four characters, the last
\* group is padded with "=".
RECURSIVE toBase64(_)
toBase64(buf) ==
  IF Len(buf) = 0 THEN <<>>
  ELSE IF Len(buf) = 1
  THEN << base64Char(buf[1] \div 4), base64Char((buf[1] % 4) * 16), "=", "=" >>
  ELSE IF Len(buf) = 2
  THEN << base64Char(buf[1] \div 4),
          base64Char((buf[1] % 4) * 16 + buf[2] \div 16),
          base64Char((buf[2] % 16) * 4), "=" >>
  ELSE << base64Char(buf[1] \div 4),
          base64Char((buf[1] % 4) * 16 + buf[2] \div 16),
          base64Char((buf[2] % 16) * 4 + buf[3] \div 64),
          base64Char(buf[3] % 64) >>
       \o toBase64(SubSeq(buf, 4, Len(buf)))

\* .replace(/(\r\n|\n|\r)/gm, "")
stripNewlines(s) == SelectSeq(s, LAMBDA c : c \notin {"\n", "\r"})

\* smtp revision: the mail of a career application, resume attached as is.
careerMailSmtp(b, file) ==
  [from |-> <<"Credify Careers">>,
   subject |-> <<"New Career Application [">> \o Interpolate(b, "role")
               \o <<"] - ">> \o Interpolate(b, "fullName"),
   heading |-> "Career Application",
   html |-> << Line("Name", escapeField(b, "fullName")),
               Line("Email", escapeField(b, "email")),
               Line("Phone", escapeField(b, "phone")),
               Line("Role", escapeField(b, "role")),
               Line("Experience", escapeField(b, "experience")) >>
            \o (IF Truthy(b, "message")
                THEN <<Line("Message", withBreaks(escapeField(b, "message")))>>
                ELSE <<>>),
   attachments |-> << [filename |-> file.originalname,
                       content |-> file.buffer,
                       contentType |-> file.mimetype,
                       encoding |-> "binary"] >>]

\* brevo revision: the same mail, resume inlined as base64 text.
careerMailBrevo(b, file) ==
  [from |-> <<"Credify Careers">>,
   subject |-> <<"New Career Application [">> \o Interpolate(b, "role")
               \o <<"] - ">> \o Interpolate(b, "fullName"),
   heading |-> "Career Application",
   html |-> << Line("Name", escapeField(b, "fullName")),
               Line("Email", escapeField(b, "email")),
               Line("Phone", escapeField(b, "phone")),
               Line("Role", escapeField(b, "role")),
               Line("Experience", escapeField(b, "experience")) >>
            \o (IF Truthy(b, "message")
                THEN <<Line("Message", withBreaks(escapeField(b, "message")))>>
                ELSE <<>>),
   attachments |-> << [filename |-> file.originalname,
                       content |-> stripNewlines(toBase64(file.buffer)),
                       contentType |-> file.mimetype,
                       encoding |-> "base64"] >>]

\* plain revision: no resume, the subject names the role only.
careerMailPlain(b) ==
  [from |-> <<"Credify Careers">>,
   subject |-> <<"New Career Application [">> \o Interpolate(b, "role") \o <<"]">>,
   heading |-> "Career Application",
   html |-> << Line("Name", escapeField(b, "fullName")),
               Line("Email", escapeField(b, "email")),
               Line("Phone", escapeField(b, "phone")),
               Line("Role", escapeField(b, "role")),
               Line("Experience", escapeField(b, "experience")) >>
            \o (IF Truthy(b, "message")
                THEN <<Line("Message", escapeField(b, "message"))>>
                ELSE <<>>),
   attachments |-> <<>>]

CareerTrimmed == {"fullName", "phone", "role", "experience", "message"}

careerSmtpResumeFirst(body, files) ==
  LET failure == uploadSmtp(files)
      errors == careerErrorsUpload(body)
      b == Sanitized(body, CareerTrimmed)
  IN IF failure # "" THEN defaultErrorHandler(failure)
     ELSE IF files = <<>>
     THEN Result(<<Response(400, FALSE, <<>>, "Resume required", "")>>, <<>>,
                 <<"response">>, <<>>, "done")
     ELSE IF errors # <<>>
     THEN Result(<<Response(400, FALSE, errors, "", "")>>, <<>>,
                 <<"response">>, <<>>, "done")
     ELSE Result(<<>>, <<careerMailSmtp(b, files[1])>>, <<"dispatch">>, <<>>,
                 "await")

\* smtp revision: upload, validators, resume check, then mail and wait.
careerSmtp(body, files) ==
  LET failure == uploadSmtp(files)
      errors == careerErrorsUpload(body)
      b == Sanitized(body, CareerTrimmed)
  IN IF failure # "" THEN defaultErrorHandler(failure)
     ELSE IF errors # <<>>
     THEN Result(<<Response(400, FALSE, errors, "", "")>>, <<>>,
                 <<"response">>, <<>>, "done")
     ELSE IF files = <<>>
     THEN Result(<<Response(400, FALSE, <<>>, "Resume required", "")>>, <<>>,
                 <<"response">>, <<>>, "done")
     ELSE Result(<<>>, <<careerMailSmtp(b, files[1])>>, <<"dispatch">>, <<>>,
                 "await")

\* brevo revision: the same pipeline; a missing file is also logged.
careerBrevo(body, files) ==
  LET failure == uploadBrevo(files)
      errors == careerErrorsUpload(body)
      b == Sanitized(body, CareerTrimmed)
  IN IF failure # "" THEN defaultErrorHandler(failure)
     ELSE IF errors # <<>>
     THEN Result(<<Response(400, FALSE, errors, "", "")>>, <<>>,
                 <<"response">>, <<>>, "done")
     ELSE IF files = <<>>
     THEN Result(<<Response(400, FALSE, <<>>, "Resume required", "")>>, <<>>,
                 <<"response">>, <<"Received file: undefined">>, "done")
     ELSE Result(<<>>, <<careerMailBrevo(b, files[1])>>, <<"dispatch">>, <<>>,
                 "await")

\* plain revision: no upload; answer at once, mail in the background.
careerPlain(body) ==
  LET errors == careerErrorsPlain(body)
      b == Sanitized(body, {"fullName"})
  IN IF errors # <<>>
     THEN Result(<<Response(400, FALSE, errors, "", "")>>, <<>>,
                 <<"response">>, <<>>, "done")
     ELSE Result(<<Response(200, TRUE, <<>>, "", "Career form received")>>,
                 <<careerMailPlain(b)>>, <<"response", "dispatch">>, <<>>,
                 "await")

(* ---------------------------- POST /api/apply ------------------------- *)

\* !fullName || !mobile || !email || !loanType
applyMissing(b) ==
  ~Truthy(b, "fullName") \/ ~Truthy(b, "mobile") \/ ~Truthy(b, "email")
  \/ ~Truthy(b, "loanType")

\* smtp revision: three escaped lines, then eight lines interpolated raw.
\* The element "Rs" stands for the rupee sign of the template.
applyMailSmtp(b) ==
  [from |-> Interpolate(b, "fullName") \o <<" via Credify">>,
   subject |-> <<"New Loan Application - ">> \o Interpolate(b, "referenceId"),
   heading |-> "Loan Application",
   html |-> << Line("Name", escapeField(b, "fullName")),
               Line("Email", escapeField(b, "email")),
               Line("Loan Type", escapeField(b, "loanType")),
               Line("Full Name", Interpolate(b, "fullName")),
               Line("Mobile", Interpolate(b, "mobile")),
               Line("Email", Interpolate(b, "email")),
               Line("Date of Birth", Interpolate(b, "dob")),
               Line("Monthly Income", Interpolate(b, "income")),
               Line("Employment", Interpolate(b, "employment")),
               Line("Loan Amount", <<"Rs">> \o Interpolate(b, "loanAmount")),
               Line("City", Interpolate(b, "city")) >>,
   attachments |-> <<>>]

\* brevo revision: the same without the raw Email line.
applyMailBrevo(b) ==
  [from |-> Interpolate(b, "fullName") \o <<" via Credify">>,
   subject |-> <<"New Loan Application - ">> \o Interpolate(b, "referenceId"),
   heading |-> "Loan Application",
   html |-> << Line("Name", escapeField(b, "fullName")),
               Line("Email", escapeField(b, "email")),
               Line("Loan Type", escapeField(b, "loanType")),
               Line("Full Name", Interpolate(b, "fullName")),
               Line("Mobile", Interpolate(b, "mobile")),
               Line("Date of Birth", Interpolate(b, "dob")),
               Line("Monthly Income", Interpolate(b, "income")),
               Line("Employment", Interpolate(b, "employment")),
               Line("Loan Amount", <<"Rs">> \o Interpolate(b, "loanAmount")),
               Line("City", Interpolate(b, "city")) >>,
   attachments |-> <<>>]

\* plain revision: the three escaped lines only.
applyMailPlain(b) ==
  [from |-> Interpolate(b, "fullName") \o <<" via Credify">>,
   subject |-> <<"New Loan Application - ">> \o Interpolate(b, "referenceId"),
   heading |-> "Loan Application",
   html |-> << Line("Name", escapeField(b, "fullName")),
               Line("Email", escapeField(b, "email")),
               Line("Loan Type", escapeField(b, "loanType")) >>,
   attachments |-> <<>>]

\* smtp revision: answer at once, mail in the background.
applySmtp(b) ==
  IF applyMissing(b)
  THEN Result(<<Response(400, FALSE, <<>>, "Missing fields", "")>>, <<>>,
              <<"response">>, <<>>, "done")
  ELSE Result(<<Response(200, TRUE, <<>>, "", "Loan application received")>>,
              <<applyMailSmtp(b)>>, <<"response", "dispatch">>, <<>>, "await")

\* brevo revision: mail first, answer when fetch settles.
applyBrevo(b) ==
  IF applyMissing(b)
  THEN Result(<<Response(400, FALSE, <<>>, "Missing fields", "")>>, <<>>,
              <<"response">>, <<>>, "done")
  ELSE Result(<<>>, <<applyMailBrevo(b)>>, <<"dispatch">>, <<>>, "await")

\* plain revision: answer at once, mail in the background.
applyPlain(b) ==
  IF applyMissing(b)
  THEN Result(<<Response(400, FALSE, <<>>, "Missing fields", "")>>, <<>>,
              <<"response">>, <<>>, "done")
  ELSE Result(<<Response(200, TRUE, <<>>, "", "Loan application received")>>,
              <<applyMailPlain(b)>>, <<"response", "dispatch">>, <<>>, "await")

(* ------------------ after the await: try and catch -------------------- *)

\* Fire-and-forget handlers: the outcome is only logged.
Logged(message) == Result(<<>>, <<>>, <<"log">>, <<message>>, "done")

\* Synchronous handlers, await fulfilled: res.json({success: true, msg}).
Succeeded(msg) ==
  Result(<<Response(200, TRUE, <<>>, "", msg)>>, <<>>, <<"response">>, <<>>,
         "done")

\* Synchronous handlers, catch: the error is logged, then
\* res.status(500).json({success: false, error: "Email failed"}).
Failed(message) ==
  Result(<<Response(500, FALSE, <<>>, "Email failed", "")>>, <<>>,
         <<"log", "response">>, <<message>>, "done")

contactSmtpSent == Logged("Contact mail sent")

contactSmtpFailedResponds == Failed("Contact mail error")

contactSmtpFailed == Logged("Contact mail error")

careerSmtpSent == Succeeded("Career form submitted with resume")

careerSmtpFailed == Failed("error")

applySmtpSent == Logged("Loan mail sent")

applySmtpFailed == Logged("Loan mail error")

contactBrevoSent == Succeeded("Contact form submitted")

contactBrevoFailed == Failed("Contact mail error")

careerBrevoSent == Succeeded("Career form submitted with resume")

careerBrevoFailedSilent == Logged("Career mail error")

careerBrevoFailed == Failed("Career mail error")

applyBrevoSent == Succeeded("Loan application submitted")

applyBrevoFailed == Failed("Loan mail error")

contactPlainSent == Logged("Contact mail sent")

contactPlainFailed == Logged("Contact mail error")

careerPlainSent == Logged("Career mail sent")

careerPlainFailed == Logged("Career mail error")

applyPlainSent == Logged("Loan mail sent")

applyPlainFailed == Logged("Loan mail error")

\* The route table of each revision.
Handle(rv, endpoint, body, files) ==
  CASE rv = "smtp" /\ endpoint = "contact" -> contactSmtp(body)
    [] rv = "smtp" /\ endpoint = "career" -> careerSmtp(body, files)
    [] rv = "smtp" /\ endpoint = "apply" -> applySmtp(body)
    [] rv = "brevo" /\ endpoint = "contact" -> contactBrevo(body)
    [] rv = "brevo" /\ endpoint = "career" -> careerBrevo(body, files)
    [] rv = "brevo" /\ endpoint = "apply" -> applyBrevo(body)
    [] rv = "plain" /\ endpoint = "contact" -> contactPlain(body)
    [] rv = "plain" /\ endpoint = "career" -> careerPlain(body)
    [] rv = "plain" /\ endpoint = "apply" -> applyPlain(body)

\* The code after the await when the promise is fulfilled.
Sent(rv, endpoint) ==
  CASE rv = "smtp" /\ endpoint = "contact" -> contactSmtpSent
    [] rv = "smtp" /\ endpoint = "career" -> careerSmtpSent
    [] rv = "smtp" /\ endpoint = "apply" -> applySmtpSent
    [] rv = "brevo" /\ endpoint = "contact" -> contactBrevoSent
    [] rv = "brevo" /\ endpoint = "career" -> careerBrevoSent
    [] rv = "brevo" /\ endpoint = "apply" -> applyBrevoSent
    [] rv = "plain" /\ endpoint = "contact" -> contactPlainSent
    [] rv = "plain" /\ endpoint = "career" -> careerPlainSent
    [] rv = "plain" /\ endpoint = "apply" -> applyPlainSent

\* The catch block, when the promise is rejected.
Caught(rv, endpoint) ==
  CASE rv = "smtp" /\ endpoint = "contact" -> contactSmtpFailed
    [] rv = "smtp" /\ endpoint = "career" -> careerSmtpFailed
    [] rv = "smtp" /\ endpoint = "apply" -> applySmtpFailed
    [] rv = "brevo" /\ endpoint = "contact" -> contactBrevoFailed
    [] rv = "brevo" /\ endpoint = "career" -> careerBrevoFailed
    [] rv = "brevo" /\ endpoint = "apply" -> applyBrevoFailed
    [] rv = "plain" /\ endpoint = "contact" -> contactPlainFailed
    [] rv = "plain" /\ endpoint = "career" -> careerPlainFailed
    [] rv = "plain" /\ endpoint = "apply" -> applyPlainFailed

(* ------------------------------ requests ------------------------------ *)

\* The values enumerated for each field.  A choice is <<>> (the field is
\* absent from the request) or <<s>> (the field holds the string s).
NameInputs ==
  { <<>>,
    <<<<"J">>>>,
    <<<<"J", "o">>>>,
    <<<<"J", "o", " ">>>>,
    <<<<" ", "J">>>>,
    <<<<"<", "b", ">">>>> }

EmailInputs ==
  { <<>>,
    <<<<"a", "@", "b">>>>,
    <<<<"a", "@", "b", ".", "c", "o">>>>,
    <<<<"o", "'", "k", "@", "b", ".", "c", "o">>>> }

LoanTypeInputs ==
  { <<>>,
    <<<<>>>>,
    <<<<"h", "o", "m", "e">>>>,
    <<<<"a", "&", "b">>>> }

MessageInputs ==
  { <<>>,
    <<<<"h", "i">>>>,
    <<<<"h", "e", "l", "l", "o">>>>,
    <<<<"<", "i", ">", "\"", "x", "\"">>>> }

FullNameInputs ==
  { <<>>,
    <<<<"J", "o">>>>,
    <<<<"<", "b", ">">>>> }

CareerEmailInputs ==
  { <<<<"a", "@", "b">>>>,
    <<<<"o", "'", "k", "@", "b", ".", "c", "o">>>> }

PhoneInputs ==
  { <<<<"9", "8">>>>,
    <<<<"9", "8", "1", "2", "5", "8", "9">>>>,
    <<<<" ", "9", "8", "1", "2", "5", "8", " ">>>> }

RoleInputs ==
  { <<>>,
    <<<<"d", "e", "v">>>> }

ExperienceInputs ==
  { <<<<>>>>,
    <<<<"2">>>> }

CareerMessageInputs ==
  { <<>>,
    <<<<>>>>,
    <<<<" ", "a", "\n", "<">>>> }

ReferenceIdInputs ==
  { <<>>,
    <<<<"R", "1">>>>,
    <<<<"<", "R", ">">>>> }

ApplyLoanTypeInputs ==
  { <<>>,
    <<<<"h", "o", "m", "e">>>> }

ApplyFullNameInputs ==
  { <<>>,
    <<<<>>>>,
    <<<<"J", "o">>>>,
    <<<<"<", "b", ">">>>> }

MobileInputs ==
  { <<>>,
    <<<<"9", "8">>>> }

ApplyEmailInputs ==
  { <<>>,
    <<<<"a", "@", "b", ".", "c", "o">>>>,
    <<<<"a", "&", "b">>>> }

DobInputs ==
  { <<>>,
    <<<<"1", "<", "2">>>> }

IncomeInputs ==
  { <<>>,
    <<<<"5">>>> }

EmploymentInputs ==
  { <<>>,
    <<<<"a", "&", "b">>>> }

LoanAmountInputs ==
  { <<>>,
    <<<<"9">>>> }

CityInputs ==
  { <<>>,
    <<<<"\"", "c", "\"">>>> }

\* req.body: the fields whose choice is present, with their strings.
MkBody(fields, choices) ==
  LET present == {i \in 1..Len(fields) : choices[i] # <<>>}
  IN [f \in {fields[i] : i \in present} |->
        choices[CHOOSE i \in present : fields[i] = f][1]]

ByteInputs == {0, 255}

RECURSIVE Buffers(_)
Buffers(n) ==
  IF n = 0 THEN {<<>>}
  ELSE Buffers(n - 1)
       \cup {Append(b, x) : b \in {c \in Buffers(n - 1) : Len(c) = n - 1},
                            x \in ByteInputs}

MimeInputs == {Pdf, Doc, Docx, "image/png"}

\* The uploads enumerated: none, a file of 1..MaxBytes bytes, or a file one
\* byte over the size limit (multer aborts it, its content is never kept).
FileInputs ==
  {<<>>}
  \cup {<<[mimetype |-> m, originalname |-> <<"c", "v">>, size |-> Len(b),
           buffer |-> b]>> : m \in MimeInputs, b \in Buffers(MaxBytes) \ {<<>>}}
  \cup {<<[mimetype |-> m, originalname |-> <<"c", "v">>,
           size |-> FileSizeLimit + 1, buffer |-> <<>>]>> : m \in MimeInputs}

NoRequest == [endpoint |-> "none", body |-> <<>>, files |-> <<>>]

(* --------------------------- the state machine ------------------------ *)

Init ==
  /\ rev \in Revisions
  /\ pc = "idle"
  /\ req = NoRequest
  /\ responses = <<>>
  /\ outbox = <<>>
  /\ trace = <<>>
  /\ logs = <<>>
  /\ delivery = "none"

\* A request runs through its route up to the handler's return or await.
Accept(endpoint, body, files) ==
  \E r \in {Handle(rev, endpoint, body, files)} :
     /\ req' = [endpoint |-> endpoint, body |-> body, files |-> files]
     /\ responses' = r.responses
     /\ outbox' = r.outbox
     /\ trace' = r.trace
     /\ logs' = r.logs
     /\ pc' = r.pc
     /\ delivery' = IF r.pc = "await" THEN "pending" ELSE "none"
     /\ UNCHANGED rev

ContactRequest ==
  /\ pc = "idle"
  /\ \E n \in NameInputs, e \in EmailInputs, l \in LoanTypeInputs,
     m \in MessageInputs :
    Accept("contact",
           MkBody(<<"name", "email", "loanType", "message">>, <<n, e, l, m>>),
           <<>>)

CareerRequest ==
  /\ pc = "idle"
  /\ \E n \in FullNameInputs, e \in CareerEmailInputs, p \in PhoneInputs,
     r \in RoleInputs, x \in ExperienceInputs, m \in CareerMessageInputs,
     files \in (IF rev = "plain" THEN {<<>>} ELSE FileInputs) :
    Accept("career",
           MkBody(<<"fullName", "email", "phone", "role", "experience",
                    "message">>, <<n, e, p, r, x, m>>),
           files)

ApplyRequest ==
  /\ pc = "idle"
  /\ \E r \in ReferenceIdInputs, l \in ApplyLoanTypeInputs,
     n \in ApplyFullNameInputs, m \in MobileInputs, e \in ApplyEmailInputs,
     d \in DobInputs, i \in IncomeInputs, w \in EmploymentInputs,
     a \in LoanAmountInputs, c \in CityInputs :
    Accept("apply",
           MkBody(<<"referenceId", "loanType", "fullName", "mobile", "email",
                    "dob", "income", "employment", "loanAmount", "city">>,
                  <<r, l, n, m, e, d, i, w, a, c>>),
           <<>>)

\* The handler resumes with the result r of its try or catch branch.
Resume(r, outcome) ==
  /\ pc = "await"
  /\ responses' = responses \o r.responses
  /\ outbox' = outbox \o r.outbox
  /\ trace' = trace \o r.trace
  /\ logs' = logs \o r.logs
  /\ pc' = r.pc
  /\ delivery' = outcome
  /\ UNCHANGED <<rev, req>>

\* sendMail or fetch is fulfilled and the mail was accepted.
Delivered == Resume(Sent(rev, req.endpoint), "delivered")

\* sendMail or fetch is rejected: the await throws into the catch block.
TransportThrows == Resume(Caught(rev, req.endpoint), "threw")

\* fetch is fulfilled with a non-2xx answer of the provider; the handler
\* never looks at the answer, so it goes on as after a delivery.
ProviderRefuses ==
  /\ rev = "brevo"
  /\ Resume(Sent(rev, req.endpoint), "refused")

\* The handler has returned; the server is ready for the next request.
Release ==
  /\ pc = "done"
  /\ pc' = "idle"
  /\ req' = NoRequest
  /\ responses' = <<>>
  /\ outbox' = <<>>
  /\ trace' = <<>>
  /\ logs' = <<>>
  /\ delivery' = "none"
  /\ UNCHANGED rev

Next ==
  \/ ContactRequest
  \/ CareerRequest
  \/ ApplyRequest
  \/ Delivered
  \/ TransportThrows
  \/ ProviderRefuses
  \/ Release

Spec == Init /\ [][Next]_vars

(* ======================= properties of the model ====================== *)

Endpoints == {"contact", "career", "apply"}

\* A request is being handled or has been handled.
Handled == pc \in {"await", "done"}

StartsWith(s, p) == Len(s) >= Len(p) /\ SubSeq(s, 1, Len(p)) = p

\* s occurs in t as a contiguous run of characters.
Contains(t, s) ==
  \E i \in 0..(Len(t) - Len(s)) : SubSeq(t, i + 1, i + Len(s)) = s

SpecialChars == {"&", "<", ">", "\"", "'"}

Entities ==
  { <<"&", "a", "m", "p", ";">>, <<"&", "l", "t", ";">>, <<"&", "g", "t", ";">>,
    <<"&", "q", "u", "o", "t", ";">>, <<"&", "#", "0", "3", "9", ";">> }

EntityChar(e) ==
  CASE e = <<"&", "a", "m", "p", ";">> -> "&"
    [] e = <<"&", "l", "t", ";">> -> "<"
    [] e = <<"&", "g", "t", ";">> -> ">"
    [] e = <<"&", "q", "u", "o", "t", ";">> -> "\""
    [] e = <<"&", "#", "0", "3", "9", ";">> -> "'"

\* No special character of HTML occurs in s outside an entity.
RECURSIVE NoRawSpecial(_)
NoRawSpecial(s) ==
  IF s = <<>> THEN TRUE
  ELSE IF \E e \in Entities : StartsWith(s, e)
  THEN LET e == CHOOSE x \in Entities : StartsWith(s, x)
       IN NoRawSpecial(SubSeq(s, Len(e) + 1, Len(s)))
  ELSE Head(s) \notin SpecialChars /\ NoRawSpecial(Tail(s))

\* The text a browser shows for s: every entity read back as its character.
RECURSIVE Rendered(_)
Rendered(s) ==
  IF s = <<>> THEN <<>>
  ELSE IF \E e \in Entities : StartsWith(s, e)
  THEN LET e == CHOOSE x \in Entities : StartsWith(s, x)
       IN <<EntityChar(e)>> \o Rendered(SubSeq(s, Len(e) + 1, Len(s)))
  ELSE <<Head(s)>> \o Rendered(Tail(s))

\* The mail has a line with this label whose value is an escaped form of text.
HasEscapedLine(mail, label, text) ==
  \E i \in 1..Len(mail.html) :
    /\ mail.html[i].label = label
    /\ NoRawSpecial(mail.html[i].value)
    /\ Rendered(mail.html[i].value) = text

\* Some line of the mail contains s.
SomeLineContains(mail, s) ==
  \E i \in 1..Len(mail.html) : Contains(mail.html[i].value, s)

FirstStatus == responses[1].status

(* The data model's field rules: which submissions have a required field  *)
(* missing or malformed.                                                  *)

ContactMalformed(b) ==
  \/ Len(toString(b, "name")) < MinNameLen
  \/ ~isEmail(toString(b, "email"))
  \/ toString(b, "loanType") = <<>>
  \/ Len(toString(b, "message")) < MinMessageLen

CareerMalformed(b) ==
  \/ Len(toString(b, "fullName")) < MinNameLen
  \/ ~isEmail(toString(b, "email"))
  \/ Len(toString(b, "phone")) < MinPhoneLen
  \/ toString(b, "role") = <<>>
  \/ toString(b, "experience") = <<>>

ApplyRequired == {"fullName", "mobile", "email", "loanType"}

ApplyMalformed(b) == \E f \in ApplyRequired : toString(b, f) = <<>>

Malformed(r) ==
  CASE r.endpoint = "contact" -> ContactMalformed(r.body)
    [] r.endpoint = "career" -> CareerMalformed(r.body)
    [] r.endpoint = "apply" -> ApplyMalformed(r.body)
    [] OTHER -> FALSE

\* The request's upload is one that upload.single("resume") turns down.
UploadRefused ==
  /\ req.endpoint = "career"
  /\ req.files # <<>>
  /\ \/ req.files[1].size > FileSizeLimit
     \/ rev = "smtp" /\ req.files[1].mimetype \notin {Pdf, Doc, Docx}
     \/ rev = "brevo" /\ req.files[1].mimetype \notin {Pdf}

\* C1: on each endpoint, in every revision, a submission with a required
\* field missing or malformed is answered with HTTP 400 and nothing is
\* handed to the mail transport for it.
C1_MalformedIsRejectedWithoutDispatch ==
  (Handled /\ Malformed(req)) =>
    /\ responses # <<>>
    /\ FirstStatus = 400
    /\ outbox = <<>>

ContactFields == {"name", "email", "loanType", "message"}

ContactLabel(f) ==
  CASE f = "name" -> "Name"
    [] f = "email" -> "Email"
    [] f = "loanType" -> "Loan Type"
    [] f = "message" -> "Message"

\* The request is a contact submission that the validators let through.
ContactAccepted ==
  Handled /\ req.endpoint = "contact" /\ contactErrors(req.body) = <<>>

\* C2 as stated: every contact submission that passes validation gets
\* exactly one dispatch attempt, and the notification's body contains the
\* HTML-escaped form of name, email, loanType and message as submitted.
C2_OneDispatchOfEscapedSubmittedFields ==
  ContactAccepted =>
    /\ Len(outbox) = 1
    /\ \A f \in ContactFields :
         \E i \in 1..Len(outbox[1].html) :
           \E v \in {outbox[1].html[i].value} :
             /\ outbox[1].html[i].label = ContactLabel(f)
             /\ \E k \in 0..(Len(v) - 1) :
                  \E part \in {SubSeq(v, k + 1, Len(v))} :
                    \E n \in 0..Len(part) :
                      /\ NoRawSpecial(SubSeq(part, 1, n))
                      /\ Rendered(SubSeq(part, 1, n)) = req.body[f]

\* C2, amended: every contact submission that passes validation gets
\* exactly one dispatch attempt, in every state from the dispatch on and
\* whatever the transport answers, and the notification has one line per
\* field whose value is the HTML-escaped form of the field, the name with
\* its surrounding whitespace trimmed.
C2_OneDispatchOfEscapedSanitizedFields ==
  ContactAccepted =>
    /\ Len(outbox) = 1
    /\ Len(outbox[1].html) = 4
    /\ HasEscapedLine(outbox[1], "Name", trim(req.body["name"]))
    /\ HasEscapedLine(outbox[1], "Email", req.body["email"])
    /\ HasEscapedLine(outbox[1], "Loan Type", req.body["loanType"])
    /\ HasEscapedLine(outbox[1], "Message", req.body["message"])

\* A valid contact submission full of markup whose delivery failed: still
\* one attempt.
C2_Witness ==
  /\ ContactAccepted
  /\ pc = "done"
  /\ delivery = "threw"
  /\ Len(outbox) = 1
  /\ req.body["name"] = <<"<", "b", ">">>
  /\ req.body["email"] = <<"o", "'", "k", "@", "b", ".", "c", "o">>
  /\ req.body["loanType"] = <<"a", "&", "b">>
  /\ req.body["message"] = <<"<", "i", ">", "\"", "x", "\"">>

\* The handlers that answer only after the transport call has settled.
Synchronous ==
  \/ rev = "smtp" /\ req.endpoint = "career"
  \/ rev = "brevo" /\ req.endpoint \in Endpoints

\* The handlers that answer first and mail in the background.
FireAndForget ==
  \/ rev = "smtp" /\ req.endpoint \in {"contact", "apply"}
  \/ rev = "plain" /\ req.endpoint \in Endpoints

\* C3: in the synchronous handlers, whenever delivery fails, whether the
\* transport call throws or the provider answers with a failure, the
\* endpoint responds 500 {success: false} and never 200 {success: true}.
C3_FailedDeliveryAnswers500 ==
  (pc = "done" /\ Synchronous /\ delivery \in {"threw", "refused"}) =>
    /\ Len(responses) = 1
    /\ responses[1].status = 500
    /\ responses[1].success = FALSE

\* C4: in the fire-and-forget handlers the 200 {success: true} response is
\* sent before the dispatch is started, and whatever the dispatch's outcome
\* that response stays the only one: a transport failure is logged and
\* produces neither a 500 nor a second response.
C4_ResponseFirstAndNeverRevised ==
  (Handled /\ FireAndForget /\ outbox # <<>>) =>
    /\ Len(trace) >= 2
    /\ trace[1] = "response"
    /\ trace[2] = "dispatch"
    /\ Len(responses) = 1
    /\ responses[1].status = 200
    /\ responses[1].success = TRUE
    /\ \A i \in 3..Len(trace) : trace[i] = "log"
    /\ (delivery = "threw" => logs # <<>>)
    /\ (pc = "done" => delivery \in {"delivered", "threw"})

\* A background dispatch that failed after the success response was sent.
C4_Witness ==
  /\ FireAndForget
  /\ pc = "done"
  /\ delivery = "threw"
  /\ trace = <<"response", "dispatch", "log">>
  /\ Len(responses) = 1
  /\ responses[1].status = 200

\* C5: a career submission whose resume exceeds 5MB or has a MIME type
\* outside the allow-list is rejected with HTTP 400, and the handler's
\* dispatch is never reached.
C5_RefusedUploadAnswers400 ==
  (Handled /\ UploadRefused) =>
    /\ responses # <<>>
    /\ FirstStatus = 400
    /\ outbox = <<>>

ApplyOptional ==
  {"referenceId", "dob", "income", "employment", "loanAmount", "city"}

\* A loan application that has fullName, mobile, email and loanType.
ApplyComplete ==
  /\ Handled
  /\ req.endpoint = "apply"
  /\ \A f \in ApplyRequired : Has(req.body, f) /\ req.body[f] # <<>>

\* Some line of the mail holds an escaped form of text, alone or after
\* fixed text of the template.
ShowsEscaped(mail, text) ==
  \E i \in 1..Len(mail.html) :
    \E k \in 0..Len(mail.html[i].value) :
      \E tail \in {SubSeq(mail.html[i].value, k + 1, Len(mail.html[i].value))} :
        NoRawSpecial(tail) /\ Rendered(tail) = text

\* C6: a loan application with fullName, mobile, email and loanType is
\* accepted whether or not the optional fields are supplied, and each
\* optional field that is present appears HTML-escaped in the body.
C6_OptionalFieldsAppearEscaped ==
  ApplyComplete =>
    /\ Len(outbox) = 1
    /\ \A i \in 1..Len(responses) : responses[i].status # 400
    /\ \A f \in ApplyOptional :
         Has(req.body, f) => ShowsEscaped(outbox[1], req.body[f])

\* C7: every user-supplied value interpolated into the HTML body of a
\* notification has passed through escapeHtml: no line of a dispatched
\* body holds a raw '<', '>', '&', '"' or "'".
C7_NoRawSpecialInAnyBody ==
  \A m \in 1..Len(outbox) :
    \A i \in 1..Len(outbox[m].html) : NoRawSpecial(outbox[m].html[i].value)

base64Index(c) == (CHOOSE i \in 1..Len(base64Alphabet) : base64Alphabet[i] = c) - 1

\* The bytes a base64 text stands for.
RECURSIVE fromBase64(_)
fromBase64(s) ==
  IF Len(s) < 4 THEN <<>>
  ELSE LET a == base64Index(s[1])
           b == base64Index(s[2])
       IN IF s[3] = "="
          THEN << a * 4 + b \div 16 >>
          ELSE LET c == base64Index(s[3])
               IN IF s[4] = "="
                  THEN << a * 4 + b \div 16, (b % 16) * 16 + c \div 4 >>
                  ELSE << a * 4 + b \div 16, (b % 16) * 16 + c \div 4,
                          (c % 4) * 64 + base64Index(s[4]) >>
                       \o fromBase64(SubSeq(s, 5, Len(s)))

\* The bytes of an attachment, whichever way the transport carries them.
AttachedBytes(att) ==
  IF att.encoding = "base64" THEN fromBase64(att.content) ELSE att.content

SameAttachments(x, y) ==
  /\ Len(x.attachments) = Len(y.attachments)
  /\ \A i \in 1..Len(x.attachments) :
       /\ x.attachments[i].filename = y.attachments[i].filename
       /\ x.attachments[i].contentType = y.attachments[i].contentType
       /\ AttachedBytes(x.attachments[i]) = AttachedBytes(y.attachments[i])

LineSet(mail) == {mail.html[i] : i \in 1..Len(mail.html)}

\* What revision rv hands to its transport for the request at hand: the
\* outbox itself for the revision that runs.
MailsOf(rv) ==
  IF rv = rev THEN outbox
  ELSE Handle(rv, req.endpoint, req.body, req.files).outbox

\* C8 as stated: for the same submission the smtp and the brevo revision
\* dispatch equivalent notifications (same subject, same set of body lines,
\* same attachment) and accept the same resume MIME types, so one
\* dispatches exactly when the other does.
C8_SameNotificationInBothTransports ==
  (Handled /\ rev \in {"smtp", "brevo"}) =>
    \E a \in {MailsOf("smtp")} : \E b \in {MailsOf("brevo")} :
      /\ (Len(a) = 0) <=> (Len(b) = 0)
      /\ (Len(a) = 1 /\ Len(b) = 1) =>
           /\ a[1].subject = b[1].subject
           /\ LineSet(a[1]) = LineSet(b[1])
           /\ SameAttachments(a[1], b[1])

\* C8, amended: whatever the brevo revision dispatches, the smtp revision
\* dispatches too, with the same subject, sender name and attachment bytes;
\* the body lines are the same for contact and career, and for apply the
\* smtp body has the brevo lines plus one unescaped Email line.  The smtp
\* revision alone also dispatches career submissions whose resume is DOC or
\* DOCX.
C8_SameNotificationUpToEmailLineAndMime ==
  (Handled /\ rev \in {"smtp", "brevo"}) =>
    \E a \in {MailsOf("smtp")} : \E b \in {MailsOf("brevo")} :
      /\ Len(b) = 1 => Len(a) = 1
      /\ (Len(a) = 1 /\ Len(b) = 0) =>
           /\ req.endpoint = "career"
           /\ req.files[1].mimetype \in {Doc, Docx}
      /\ (Len(a) = 1 /\ Len(b) = 1) =>
           /\ a[1].subject = b[1].subject
           /\ a[1].from = b[1].from
           /\ SameAttachments(a[1], b[1])
           /\ LineSet(b[1]) \subseteq LineSet(a[1])
           /\ LineSet(a[1]) \ LineSet(b[1]) \subseteq
                (IF req.endpoint = "apply"
                 THEN {Line("Email", Interpolate(req.body, "email"))}
                 ELSE {})

\* A career application with a two-byte PDF sent through the HTTP API.
C8_Witness ==
  /\ rev = "brevo"
  /\ pc = "done"
  /\ req.endpoint = "career"
  /\ Len(outbox) = 1
  /\ req.files[1].buffer = <<0, 255>>
  /\ Len(MailsOf("smtp")) = 1

\* The fields of the request that break a rule of the data model.
ViolatedFields(r) ==
  CASE r.endpoint = "contact" ->
         {f \in {"name"} : Len(toString(r.body, f)) < MinNameLen}
         \cup {f \in {"email"} : ~isEmail(toString(r.body, f))}
         \cup {f \in {"loanType"} : toString(r.body, f) = <<>>}
         \cup {f \in {"message"} : Len(toString(r.body, f)) < MinMessageLen}
    [] r.endpoint = "career" ->
         {f \in {"fullName"} : Len(toString(r.body, f)) < MinNameLen}
         \cup {f \in {"email"} : ~isEmail(toString(r.body, f))}
         \cup {f \in {"phone"} : Len(toString(r.body, f)) < MinPhoneLen}
         \cup {f \in {"role", "experience"} : toString(r.body, f) = <<>>}
    [] r.endpoint = "apply" ->
         {f \in ApplyRequired : toString(r.body, f) = <<>>}
    [] OTHER -> {}

NamedFields(response) == {response.errors[i].path : i \in 1..Len(response.errors)}

\* C9: every validation failure is reported in the 400 response with
\* field-level detail that names every violated field.
C9_EveryViolatedFieldIsNamed ==
  (pc = "done" /\ FirstStatus = 400 /\ ViolatedFields(req) # {}) =>
    ViolatedFields(req) \subseteq NamedFields(responses[1])

\* The career revisions that take a resume upload, with an upload step that
\* let the request through to the validators.
CareerPastUpload ==
  /\ Handled
  /\ rev \in {"smtp", "brevo"}
  /\ req.endpoint = "career"
  /\ ~UploadRefused

\* C10: in the career revisions that accept a resume, a submission that
\* passes field validation but carries no file is answered 400 (Resume
\* required) without dispatch, and one that also fails field validation
\* gets the validation-errors 400 instead.
C10_MissingResumeAfterValidation ==
  (CareerPastUpload /\ req.files = <<>>) =>
    /\ pc = "done"
    /\ outbox = <<>>
    /\ Len(responses) = 1
    /\ responses[1].status = 400
    /\ IF careerErrorsUpload(req.body) = <<>>
       THEN responses[1].error = "Resume required" /\ responses[1].errors = <<>>
       ELSE responses[1].error = "" /\ responses[1].errors # <<>>

\* A career submission with valid fields and no file.
C10_Witness ==
  /\ CareerPastUpload
  /\ req.files = <<>>
  /\ careerErrorsUpload(req.body) = <<>>
  /\ responses[1].error = "Resume required"

\* A career submission with neither valid fields nor a file.
C10_WitnessBoth ==
  /\ CareerPastUpload
  /\ req.files = <<>>
  /\ careerErrorsUpload(req.body) # <<>>
  /\ responses[1].errors # <<>>

\* The request got past the upload step into its handler.
ReachedHandler == Handled /\ ~UploadRefused

\* C11: every request that reaches one of the three POST handlers receives
\* exactly one HTTP response on every control path (validation failure,
\* missing resume, dispatch success, dispatch failure): never a second one,
\* and none is missing once the handler has returned; until then only a
\* synchronous handler that still awaits its transport has sent nothing.
C11_ExactlyOneResponse ==
  ReachedHandler =>
    /\ Len(responses) <= 1
    /\ Cardinality({i \in 1..Len(trace) : trace[i] = "response"}) = Len(responses)
    /\ (pc = "done" => Len(responses) = 1)
    /\ (Len(responses) = 0 =>
          pc = "await" /\ Synchronous /\ delivery = "pending")

\* A synchronous handler whose dispatch failed and that answered once, 500.
C11_Witness ==
  /\ ReachedHandler
  /\ rev = "brevo"
  /\ req.endpoint = "career"
  /\ pc = "done"
  /\ delivery = "threw"
  /\ Len(responses) = 1
  /\ responses[1].status = 500

====
